---- MODULE Spec2Model ----
(***************************************************************************)
(* State-machine model of src/app.py (class Simulation): the frame loop's  *)
(* event handlers and update(), the bounded snapshot history used for      *)
(* inversion, the particle list with its physics handles, the recorded     *)
(* energies with their average, and the energy colour mapper.              *)
(*                                                                         *)
(* Units.  Lengths, velocities and angles are small integers.  A mass is   *)
(* counted in units of pi/4, so that math.pi * r**2 is 4*r*r and           *)
(* pymunk.moment_for_circle(m, 0, r) = m*r*r/2 is 2*r^4; every energy the  *)
(* program computes is then an integer.  Friction is counted in tenths.    *)
(* average_energy is a float quotient sum/len; it is kept as the reduced   *)
(* fraction [num, den].  dt is INITIAL_TIME_STEP * 1.1^up * 0.9^down and   *)
(* is kept as the pair of exponents.                                       *)
(***************************************************************************)
EXTENDS Integers, Sequences, FiniteSets, TLC

\* ---------------------------------------------------------------- bounds
\* Scaled-down values of the source's MAX_HISTORY_LENGTH (1000) and
\* NUM_PARTICLES (400).
MAX_HISTORY_LENGTH == 2
NUM_PARTICLES == 1
\* Inputs of the colour mapper in ColorSpec.
MaxEnergy == 12
MaxAverage == 5
\* Probe bodies of the kinetic-energy check: mass and moment are the even
\* numbers up to 2 * MaxHalfMass (so that the halves are exact), each velocity
\* component and the angular velocity range over -MaxSpeed..MaxSpeed.
MaxHalfMass == 2
MaxSpeed == 1

\* Particles that may be live at once: one more than a reset creates.
MaxParticles == NUM_PARTICLES + 1
\* Forward frames followed after the history was last cleared.
MaxFrames == MAX_HISTORY_LENGTH + 1

\* ------------------------------------------------------ program constants
DEFAULT_FRICTION == 1
GRAVITY_ACCELERATION == 981
PARTICLE_RADIUS_RANGE == <<1, 2>>

\* The time steps followed: INITIAL_TIME_STEP and one press of K_UP or K_DOWN.
TimeSteps == {[up |-> 0, down |-> 0], [up |-> 1, down |-> 0], [up |-> 0, down |-> 1]}

\* random.randint / random.uniform draws of Particle.__init__
Radii == PARTICLE_RADIUS_RANGE[1]..PARTICLE_RADIUS_RANGE[2]
SpawnPositions == {<<1, 1>>}
InitialVelocities == {<<1, 0>>}
InitialAngularVelocities == {1}
ParticleDraws ==
  [radius : Radii, position : SpawnPositions, velocity : InitialVelocities,
   angular_velocity : InitialAngularVelocities]

\* The kinematic states of a dynamic body.  A body is spawned moving sideways;
\* a step without gravity carries it to the opposite wall, where it bounces
\* (position + velocity, angle + angular velocity, both velocities reversed,
\* the kinetic energy kept); a step under gravity leaves it falling, with a
\* higher kinetic energy.
Sideways ==
  [position |-> <<1, 1>>, velocity |-> <<1, 0>>, angle |-> 0, angular_velocity |-> 1]
Bounced ==
  [position |-> <<2, 1>>, velocity |-> <<-1, 0>>, angle |-> 1, angular_velocity |-> -1]
Downward ==
  [position |-> <<2, 2>>, velocity |-> <<0, 2>>, angle |-> 1, angular_velocity |-> 1]

VARIABLES
  paused,             \* self.paused
  friction_enabled,   \* self.friction_enabled
  gravity_enabled,    \* self.gravity_enabled
  inversion_enabled,  \* self.inversion_enabled
  dt,                 \* self.dt, as [up, down]
  history,            \* self.history, oldest first
  particles,          \* self.particles
  space,              \* self.space
  initial_energies,   \* self.initial_energies
  average_energy,     \* self.average_energy, as [num, den]
  crashed,            \* an exception left the frame loop
  ghost,              \* bookkeeping of the properties, never read by the program
  energy,             \* argument of energy_to_color (ColorSpec)
  color               \* result of energy_to_color (ColorSpec)

vars == <<paused, friction_enabled, gravity_enabled, inversion_enabled,
          dt, history, particles, space, initial_energies, average_energy,
          crashed, ghost, energy, color>>

\* ----------------------------------------------------------------- helpers
RECURSIVE SumSeq(_)
SumSeq(s) == IF s = <<>> THEN 0 ELSE Head(s) + SumSeq(Tail(s))

RECURSIVE Gcd(_, _)
Gcd(a, b) == IF b = 0 THEN a ELSE Gcd(b, a % b)

\* The float a / b (b > 0, a >= 0) as a reduced fraction.
Quotient(a, b) ==
  LET g == Gcd(a, b) IN [num |-> a \div g, den |-> b \div g]

\* int(a / b) for b > 0: Python's int() truncates toward zero.
IntOfQuotient(a, b) ==
  IF a >= 0 THEN a \div b ELSE -((-a) \div b)

Min(a, b) == IF a < b THEN a ELSE b
Max(a, b) == IF a > b THEN a ELSE b

Range(s) == {s[i] : i \in DOMAIN s}

\* ------------------------------------------------------------ physics space
\* Mutant of NewSpace: the gravity of the new space is left at the engine's
\* default.
NewSpaceDefaultGravity(gravity) ==
  [gravity |-> <<0, 0>>, statics |-> 4, bodies |-> {}, shapes |-> {}]

\* pymunk.Space() followed by create_boundaries(): four static walls.
NewSpace(gravity) ==
  [gravity |-> gravity, statics |-> 4, bodies |-> {}, shapes |-> {}]

GravityVector == IF gravity_enabled THEN <<0, GRAVITY_ACCELERATION>> ELSE <<0, 0>>

FrictionValue == IF friction_enabled THEN DEFAULT_FRICTION ELSE 0

\* Identity of a newly allocated body/shape pair.
FreshId(sp, ps) ==
  CHOOSE i \in 1..(MaxParticles + NUM_PARTICLES + 1) :
    /\ i \notin sp.bodies \cup sp.shapes \cup {ps[k].id : k \in DOMAIN ps}
    /\ \A j \in 1..(i - 1) :
         j \in sp.bodies \cup sp.shapes \cup {ps[k].id : k \in DOMAIN ps}

\* Mutant of calculate_kinetic_energy: the speeds enter unsquared.
calculate_kinetic_energy_unsquared(body) ==
  LET linear_energy ==
        (body.mass * (body.velocity[1] + body.velocity[2])) \div 2
      angular_energy == (body.moment * body.angular_velocity) \div 2
  IN linear_energy + angular_energy

calculate_kinetic_energy(body) ==
  LET linear_energy ==
        (body.mass * (body.velocity[1] * body.velocity[1]
                      + body.velocity[2] * body.velocity[2])) \div 2
      angular_energy ==
        (body.moment * (body.angular_velocity * body.angular_velocity)) \div 2
  IN linear_energy + angular_energy

\* Particle.__init__ without the space.add.  The body and the shape of the
\* particle share its id.  spawn_energy is bookkeeping of the properties (the
\* kinetic energy the particle is created with); the program never reads it.
Particle(id, draw, friction) ==
  LET body == [mass |-> 4 * draw.radius * draw.radius,
               moment |-> 2 * draw.radius * draw.radius * draw.radius * draw.radius,
               velocity |-> draw.velocity,
               angular_velocity |-> draw.angular_velocity]
  IN [id |-> id,
      radius |-> draw.radius,
      mass |-> body.mass,
      moment |-> body.moment,
      position |-> draw.position,
      velocity |-> draw.velocity,
      angle |-> 0,
      angular_velocity |-> draw.angular_velocity,
      friction |-> friction,
      spawn_energy |-> calculate_kinetic_energy(body)]

\* space.add(body, shape)
SpaceAdd(sp, id) ==
  [sp EXCEPT !.bodies = @ \cup {id}, !.shapes = @ \cup {id}]

\* Mutant of SpaceRemove: the shape stays in the space.
SpaceRemoveBodyOnly(sp, id) ==
  [sp EXCEPT !.bodies = @ \ {id}]

\* space.remove(body, shape)
SpaceRemove(sp, id) ==
  [sp EXCEPT !.bodies = @ \ {id}, !.shapes = @ \ {id}]

\* create_particles(count): the particle list is replaced, one particle per draw.
RECURSIVE create_particles(_, _, _, _)
create_particles(sp, ps, draws, friction) ==
  IF draws = <<>> THEN [particles |-> ps, space |-> sp]
  ELSE LET id == FreshId(sp, ps)
       IN create_particles(SpaceAdd(sp, id),
                           Append(ps, Particle(id, Head(draws), friction)),
                           Tail(draws), friction)

EnergiesOf(ps) == [i \in DOMAIN ps |-> calculate_kinetic_energy(ps[i])]

\* sum(energies) / len(energies) if energies else 0
AverageOf(energies) ==
  IF energies # <<>> THEN Quotient(SumSeq(energies), Len(energies))
  ELSE [num |-> 0, den |-> 1]

\* Mutant of ColorBaseline: the average is used as it is.
ColorBaselineUnguarded == average_energy

\* avg = self.average_energy if self.average_energy > 0 else 1
ColorBaseline ==
  IF average_energy.num > 0 THEN average_energy ELSE [num |-> 1, den |-> 1]

\* Mutant of energy_to_color: the channels are returned without the clamp.
energy_to_color_unclamped(e) ==
  LET avg == ColorBaseline
      below == e * avg.den < avg.num
      up == IntOfQuotient(255 * e * avg.den, avg.num)
      down == IntOfQuotient(255 * (2 * avg.num - e * avg.den), avg.num)
  IN <<IF below THEN up ELSE 255, IF below THEN up ELSE down,
       IF below THEN 255 ELSE down>>

\* Mutant of energy_to_color: above the average green and blue fade at half
\* the slope.
energy_to_color_half_slope(e) ==
  LET avg == ColorBaseline
      below == e * avg.den < avg.num
      up == IntOfQuotient(255 * e * avg.den, avg.num)
      down == IntOfQuotient(255 * (3 * avg.num - e * avg.den), 2 * avg.num)
      red == IF below THEN up ELSE 255
      green == IF below THEN up ELSE down
      blue == IF below THEN 255 ELSE down
  IN <<Max(0, Min(255, red)), Max(0, Min(255, green)), Max(0, Min(255, blue))>>

\* -------------------------------------------------------------- colour map
energy_to_color(e) ==
  LET avg == ColorBaseline
      below == e * avg.den < avg.num
      \* int(255 * (e / avg))
      up == IntOfQuotient(255 * e * avg.den, avg.num)
      \* int(255 * (1 - (e - avg) / avg))
      down == IntOfQuotient(255 * (2 * avg.num - e * avg.den), avg.num)
      red == IF below THEN up ELSE 255
      green == IF below THEN up ELSE down
      blue == IF below THEN 255 ELSE down
  IN <<Max(0, Min(255, red)), Max(0, Min(255, green)), Max(0, Min(255, blue))>>

\* ------------------------------------------------------------------ history
save_state(ps) ==
  [i \in DOMAIN ps |->
     <<ps[i].position, ps[i].velocity, ps[i].angle, ps[i].angular_velocity>>]

\* Mutant of load_state: a snapshot of another length is not loaded at all.
load_state_same_length_only(ps, state) ==
  [i \in DOMAIN ps |->
     IF Len(state) = Len(ps)
     THEN [ps[i] EXCEPT !.position = state[i][1], !.velocity = state[i][2],
                        !.angle = state[i][3], !.angular_velocity = state[i][4]]
     ELSE ps[i]]

\* Mutant of load_state: the velocity is not written back.
load_state_without_velocity(ps, state) ==
  [i \in DOMAIN ps |->
     IF i <= Len(state)
     THEN [ps[i] EXCEPT !.position = state[i][1], !.angle = state[i][3],
                        !.angular_velocity = state[i][4]]
     ELSE ps[i]]

\* zip(self.particles, state) pairs by position and stops at the shorter list.
load_state(ps, state) ==
  [i \in DOMAIN ps |->
     IF i <= Len(state)
     THEN [ps[i] EXCEPT !.position = state[i][1], !.velocity = state[i][2],
                        !.angle = state[i][3], !.angular_velocity = state[i][4]]
     ELSE ps[i]]

\* Mutant of HistoryAppend: a deque without maxlen.
HistoryAppendUnbounded(h, x) == Append(h, x)

\* deque(maxlen=MAX_HISTORY_LENGTH).append
HistoryAppend(h, x) ==
  IF Len(h) >= MAX_HISTORY_LENGTH
  THEN SubSeq(Append(h, x), Len(h) + 2 - MAX_HISTORY_LENGTH, Len(h) + 1)
  ELSE Append(h, x)

\* Mutant of HistoryPopped: the oldest entry is returned, as popleft would.
HistoryPoppedOldest(h) == h[1]

\* deque.pop: the entry returned and the deque left behind
HistoryPopped(h) == h[Len(h)]

\* Mutant of HistoryAfterPop: the newest entry is read and left in place.
HistoryAfterPopKeeps(h) == h

HistoryAfterPop(h) == SubSeq(h, 1, Len(h) - 1)

\* Kinematic state of every live particle, as the properties read it.
Kinematics(ps) ==
  [i \in DOMAIN ps |->
     [position |-> ps[i].position, velocity |-> ps[i].velocity,
      angle |-> ps[i].angle, angular_velocity |-> ps[i].angular_velocity]]

\* The engine's integrator, a deterministic function of the body and the
\* space.
Advance(body, gravity) ==
  LET to == IF gravity # <<0, 0>> THEN Downward
            ELSE IF body.velocity = Sideways.velocity THEN Bounced
            ELSE IF body.velocity = Bounced.velocity THEN Sideways
            ELSE Downward
  IN [body EXCEPT !.position = to.position, !.velocity = to.velocity,
                  !.angle = to.angle, !.angular_velocity = to.angular_velocity]

\* space.step(dt): every dynamic body of the space is advanced; a body that is
\* not in the space is not touched.
Step(sp, ps) ==
  [i \in DOMAIN ps |->
     IF ps[i].id \in sp.bodies THEN Advance(ps[i], sp.gravity) ELSE ps[i]]

\* -------------------------------------------------------------------- ghost
\* frames: snapshots captured since the history was last cleared;
\* steps: space.step calls since then; pre[n]: the particles' kinematics
\* immediately before the n-th of these frames was stepped, kept while that
\* capture is within the last MAX_HISTORY_LENGTH and has not been replayed;
\* set_changed: a particle was added or removed while snapshots were held.
GhostCleared == [frames |-> 0, steps |-> 0, pre |-> <<>>, set_changed |-> FALSE]

GhostCapture(g, ps) ==
  LET n == g.frames + 1
      keep == {s \in DOMAIN g.pre : s > n - MAX_HISTORY_LENGTH} \cup {n}
  IN [g EXCEPT !.frames = n,
               !.pre = [s \in keep |-> IF s = n THEN Kinematics(ps) ELSE g.pre[s]]]

GhostReplay(g) ==
  LET newest == {s \in DOMAIN g.pre : \A t \in DOMAIN g.pre : t <= s}
  IN [g EXCEPT !.pre = [s \in DOMAIN g.pre \ newest |-> g.pre[s]]]

GhostSetChange(g, h) ==
  [g EXCEPT !.set_changed = @ \/ h # <<>>]

\* --------------------------------------------------------------------- Init
\* Simulation.__init__
Init ==
  \E draws \in [1..NUM_PARTICLES -> ParticleDraws] :
    LET made == create_particles(NewSpace(<<0, 0>>), <<>>, draws, 0)
    IN /\ paused = FALSE
       /\ friction_enabled = FALSE
       /\ gravity_enabled = FALSE
       /\ inversion_enabled = FALSE
       /\ dt = [up |-> 0, down |-> 0]
       /\ history = <<>>
       /\ particles = made.particles
       /\ space = made.space
       /\ initial_energies = EnergiesOf(made.particles)
       /\ average_energy = AverageOf(EnergiesOf(made.particles))
       /\ crashed = FALSE
       /\ ghost = GhostCleared
       /\ energy = 0
       /\ color = <<>>

\* The loop runs until pygame.QUIT (the behaviour then stops) or an exception.
Live == ~crashed

\* ------------------------------------------------------------ handle_events
\* K_SPACE
KeySpace ==
  /\ Live
  /\ paused' = ~paused
  /\ UNCHANGED <<friction_enabled, gravity_enabled, inversion_enabled, dt,
                 history, particles, space, initial_energies, average_energy,
                 crashed, ghost, energy, color>>

\* Mutant of reset_simulation: the reset also leaves inversion mode and
\* unpauses.
reset_simulation_and_flags ==
  /\ Live
  /\ \E draws \in [1..NUM_PARTICLES -> ParticleDraws] :
       LET made == create_particles(NewSpace(GravityVector), <<>>, draws,
                                    FrictionValue)
       IN /\ space' = made.space
          /\ particles' = made.particles
          /\ initial_energies' = EnergiesOf(made.particles)
          /\ average_energy' = AverageOf(EnergiesOf(made.particles))
  /\ history' = <<>>
  /\ ghost' = GhostCleared
  /\ paused' = FALSE
  /\ inversion_enabled' = FALSE
  /\ UNCHANGED <<friction_enabled, gravity_enabled, dt, crashed, energy, color>>

\* K_r: reset_simulation()
reset_simulation ==
  /\ Live
  /\ \E draws \in [1..NUM_PARTICLES -> ParticleDraws] :
       LET made == create_particles(NewSpace(GravityVector), <<>>, draws,
                                    FrictionValue)
       IN /\ space' = made.space
          /\ particles' = made.particles
          /\ initial_energies' = EnergiesOf(made.particles)
          /\ average_energy' = AverageOf(EnergiesOf(made.particles))
  /\ history' = <<>>
  /\ ghost' = GhostCleared
  /\ UNCHANGED <<paused, friction_enabled, gravity_enabled,
                 inversion_enabled, dt, crashed, energy, color>>

\* Mutant of KeyF: the flag is flipped and the live particles are left alone.
KeyFFlagOnly ==
  /\ Live
  /\ friction_enabled' = ~friction_enabled
  /\ UNCHANGED <<paused, gravity_enabled, inversion_enabled, dt, history,
                 particles, space, initial_energies, average_energy, crashed,
                 ghost, energy, color>>

\* K_f
KeyF ==
  /\ Live
  /\ friction_enabled' = ~friction_enabled
  /\ particles' = [i \in DOMAIN particles |->
                     [particles[i] EXCEPT
                        !.friction = IF friction_enabled' THEN DEFAULT_FRICTION ELSE 0]]
  /\ UNCHANGED <<paused, gravity_enabled, inversion_enabled, dt, history,
                 space, initial_energies, average_energy, crashed, ghost, energy,
                 color>>

\* K_g
KeyG ==
  /\ Live
  /\ gravity_enabled' = ~gravity_enabled
  /\ space' = [space EXCEPT !.gravity = IF gravity_enabled'
                                        THEN <<0, GRAVITY_ACCELERATION>>
                                        ELSE <<0, 0>>]
  /\ UNCHANGED <<paused, friction_enabled, inversion_enabled, dt, history,
                 particles, initial_energies, average_energy, crashed, ghost,
                 energy, color>>

\* Mutant of KeyI: the history survives the end of inversion.
KeyIKeepsHistory ==
  /\ Live
  /\ inversion_enabled' = ~inversion_enabled
  /\ ghost' = IF ~inversion_enabled' THEN GhostCleared ELSE ghost
  /\ UNCHANGED <<paused, friction_enabled, gravity_enabled, dt, history, particles,
                 space, initial_energies, average_energy, crashed, energy, color>>

\* K_i
KeyI ==
  /\ Live
  /\ inversion_enabled' = ~inversion_enabled
  /\ IF ~inversion_enabled'
     THEN history' = <<>> /\ ghost' = GhostCleared
     ELSE UNCHANGED <<history, ghost>>
  /\ UNCHANGED <<paused, friction_enabled, gravity_enabled, dt, particles,
                 space, initial_energies, average_energy, crashed, energy, color>>

\* K_UP: self.dt *= 1.1
KeyUp ==
  /\ Live
  /\ [dt EXCEPT !.up = @ + 1] \in TimeSteps
  /\ dt' = [dt EXCEPT !.up = @ + 1]
  /\ UNCHANGED <<paused, friction_enabled, gravity_enabled,
                 inversion_enabled, history, particles, space, initial_energies,
                 average_energy, crashed, ghost, energy, color>>

\* K_DOWN: self.dt *= 0.9
KeyDown ==
  /\ Live
  /\ [dt EXCEPT !.down = @ + 1] \in TimeSteps
  /\ dt' = [dt EXCEPT !.down = @ + 1]
  /\ UNCHANGED <<paused, friction_enabled, gravity_enabled,
                 inversion_enabled, history, particles, space, initial_energies,
                 average_energy, crashed, ghost, energy, color>>

\* Mutant of AddParticle: the energy is recorded but the average is not
\* recomputed.
AddParticleStaleAverage ==
  /\ Len(particles) < MaxParticles
  /\ \E draw \in ParticleDraws :
       LET id == FreshId(space, particles)
           new_particle == Particle(id, draw, FrictionValue)
       IN /\ space' = SpaceAdd(space, id)
          /\ particles' = Append(particles, new_particle)
          /\ initial_energies' = Append(initial_energies,
                                        calculate_kinetic_energy(new_particle))
  /\ ghost' = GhostSetChange(ghost, history)
  /\ UNCHANGED <<paused, friction_enabled, gravity_enabled, inversion_enabled, dt,
                 history, average_energy, crashed, energy, color>>

\* The body shared by K_EQUALS/K_PLUS and MOUSEBUTTONDOWN: add one particle.
AddParticle ==
  /\ Len(particles) < MaxParticles
  /\ \E draw \in ParticleDraws :
       LET id == FreshId(space, particles)
           new_particle == Particle(id, draw, FrictionValue)
           energies == Append(initial_energies,
                              calculate_kinetic_energy(new_particle))
       IN /\ space' = SpaceAdd(space, id)
          /\ particles' = Append(particles, new_particle)
          /\ initial_energies' = energies
          /\ average_energy' = Quotient(SumSeq(energies), Len(energies))
  /\ ghost' = GhostSetChange(ghost, history)
  /\ UNCHANGED <<paused, friction_enabled, gravity_enabled,
                 inversion_enabled, dt, history, crashed, energy, color>>

\* K_EQUALS, K_PLUS
KeyPlus == Live /\ AddParticle

\* pygame.MOUSEBUTTONDOWN
MouseButtonDown == Live /\ AddParticle

\* Mutant of KeyMinus: the recorded energy of the removed particle is kept.
KeyMinusKeepsEnergy ==
  /\ Live
  /\ IF particles # <<>>
     THEN LET removed == particles[Len(particles)]
              rest == SubSeq(particles, 1, Len(particles) - 1)
          IN /\ particles' = rest
             /\ ghost' = GhostSetChange(ghost, history)
             /\ IF removed.id \in space.bodies /\ removed.id \in space.shapes
                THEN /\ space' = SpaceRemove(space, removed.id)
                     /\ average_energy' = IF initial_energies # <<>>
                                          THEN Quotient(SumSeq(initial_energies),
                                                        Len(initial_energies))
                                          ELSE average_energy
                     /\ UNCHANGED <<initial_energies, crashed>>
                ELSE /\ crashed' = TRUE
                     /\ UNCHANGED <<space, initial_energies, average_energy>>
     ELSE UNCHANGED <<particles, ghost, space, initial_energies, average_energy,
                      crashed>>
  /\ UNCHANGED <<paused, friction_enabled, gravity_enabled,
                 inversion_enabled, dt, history, energy, color>>

\* K_MINUS
KeyMinus ==
  /\ Live
  /\ IF particles # <<>>
     THEN LET removed == particles[Len(particles)]
              rest == SubSeq(particles, 1, Len(particles) - 1)
              popped == IF initial_energies # <<>>
                        THEN SubSeq(initial_energies, 1, Len(initial_energies) - 1)
                        ELSE initial_energies
          IN /\ particles' = rest
             /\ ghost' = GhostSetChange(ghost, history)
             /\ IF removed.id \in space.bodies /\ removed.id \in space.shapes
                THEN /\ space' = SpaceRemove(space, removed.id)
                     /\ initial_energies' = popped
                     /\ average_energy' = IF popped # <<>>
                                          THEN Quotient(SumSeq(popped), Len(popped))
                                          ELSE average_energy
                     /\ UNCHANGED crashed
                ELSE \* space.remove of an object that is not in the space raises
                     /\ crashed' = TRUE
                     /\ UNCHANGED <<space, initial_energies, average_energy>>
     ELSE UNCHANGED <<particles, ghost, space, initial_energies, average_energy,
                      crashed>>
  /\ UNCHANGED <<paused, friction_enabled, gravity_enabled,
                 inversion_enabled, dt, history, energy, color>>

\* ------------------------------------------------------------------- update
\* Mutant of UpdatePaused: the pause flag is not consulted and the frame
\* captures and steps.
UpdatePausedSteps ==
  /\ Live
  /\ paused
  /\ ~inversion_enabled
  /\ ghost.frames < MaxFrames
  /\ history' = HistoryAppend(history, [state |-> save_state(particles),
                                         seq |-> ghost.frames + 1])
  /\ particles' = Step(space, particles)
  /\ ghost' = [GhostCapture(ghost, particles) EXCEPT !.steps = @ + 1]
  /\ UNCHANGED <<paused, friction_enabled, gravity_enabled,
                 inversion_enabled, dt, space, initial_energies, average_energy,
                 crashed, energy, color>>

\* update() while paused
UpdatePaused ==
  /\ Live
  /\ paused
  /\ UNCHANGED vars

\* Mutant of UpdateInversion: history.pop() without the length check raises on
\* an empty history.
UpdateInversionUnguarded ==
  /\ Live
  /\ ~paused
  /\ inversion_enabled
  /\ IF Len(history) > 0
     THEN /\ history' = HistoryAfterPop(history)
          /\ particles' = load_state(particles, HistoryPopped(history).state)
          /\ ghost' = GhostReplay(ghost)
          /\ UNCHANGED crashed
     ELSE /\ crashed' = TRUE
          /\ UNCHANGED <<history, particles, ghost>>
  /\ UNCHANGED <<paused, friction_enabled, gravity_enabled,
                 inversion_enabled, dt, space, initial_energies, average_energy,
                 energy, color>>

\* update(), inversion branch
UpdateInversion ==
  /\ Live
  /\ ~paused
  /\ inversion_enabled
  /\ IF Len(history) > 0
     THEN /\ history' = HistoryAfterPop(history)
          /\ particles' = load_state(particles, HistoryPopped(history).state)
          /\ ghost' = GhostReplay(ghost)
     ELSE UNCHANGED <<history, particles, ghost>>
  /\ UNCHANGED <<paused, friction_enabled, gravity_enabled,
                 inversion_enabled, dt, space, initial_energies, average_energy,
                 crashed, energy, color>>

\* Mutant of UpdateForward: the world is stepped before the snapshot is taken.
UpdateForwardStepFirst ==
  /\ Live
  /\ ~paused
  /\ ~inversion_enabled
  /\ ghost.frames < MaxFrames
  /\ history' = HistoryAppend(history,
                              [state |-> save_state(Step(space, particles)),
                               seq |-> ghost.frames + 1])
  /\ particles' = Step(space, particles)
  /\ ghost' = [GhostCapture(ghost, particles) EXCEPT !.steps = @ + 1]
  /\ UNCHANGED <<paused, friction_enabled, gravity_enabled,
                 inversion_enabled, dt, space, initial_energies, average_energy,
                 crashed, energy, color>>

\* update(), forward branch
UpdateForward ==
  /\ Live
  /\ ~paused
  /\ ~inversion_enabled
  /\ ghost.frames < MaxFrames
  /\ history' = HistoryAppend(history, [state |-> save_state(particles),
                                         seq |-> ghost.frames + 1])
  /\ particles' = Step(space, particles)
  /\ ghost' = [GhostCapture(ghost, particles) EXCEPT !.steps = @ + 1]
  /\ UNCHANGED <<paused, friction_enabled, gravity_enabled,
                 inversion_enabled, dt, space, initial_energies, average_energy,
                 crashed, energy, color>>

update == UpdatePaused \/ UpdateInversion \/ UpdateForward

Next ==
  \/ KeySpace
  \/ reset_simulation
  \/ KeyF
  \/ KeyG
  \/ KeyI
  \/ KeyUp
  \/ KeyDown
  \/ KeyPlus
  \/ KeyMinus
  \/ MouseButtonDown
  \/ update

Spec == Init /\ [][Next]_vars

\* ---------------------------------------------------------------- ColorSpec
\* energy_to_color on its own: the energy and the average (zero included) are
\* drawn from bounded sets and the mapper is applied once.
ColorInit ==
  /\ energy \in 0..MaxEnergy
  /\ average_energy \in {[num |-> a, den |-> 1] : a \in 0..MaxAverage}
  /\ color = <<>>
  /\ paused = FALSE
  /\ friction_enabled = FALSE
  /\ gravity_enabled = FALSE
  /\ inversion_enabled = FALSE
  /\ dt = [up |-> 0, down |-> 0]
  /\ history = <<>>
  /\ particles = <<>>
  /\ space = NewSpace(<<0, 0>>)
  /\ initial_energies = <<>>
  /\ crashed = FALSE
  /\ ghost = GhostCleared

\* draw() colouring one particle; a division by zero raises ZeroDivisionError.
ApplyColor ==
  /\ Live
  /\ color = <<>>
  /\ IF ColorBaseline.num = 0
     THEN crashed' = TRUE /\ UNCHANGED color
     ELSE color' = energy_to_color(energy) /\ UNCHANGED crashed
  /\ UNCHANGED <<paused, friction_enabled, gravity_enabled, inversion_enabled, dt,
                 history, particles, space, initial_energies, average_energy,
                 ghost, energy>>

ColorNext == ApplyColor

ColorSpec == ColorInit /\ [][ColorNext]_vars

\* --------------------------------------------------------------- KineticSpec
\* calculate_kinetic_energy on its own: a body is drawn from bounded masses,
\* moments and velocities, and its energy is recorded as line 75 records it.
ProbeBodies ==
  [mass : {2 * h : h \in 0..MaxHalfMass},
   moment : {2 * h : h \in 0..MaxHalfMass},
   velocity : (-MaxSpeed..MaxSpeed) \X (-MaxSpeed..MaxSpeed),
   angular_velocity : -MaxSpeed..MaxSpeed]

KineticInit ==
  /\ particles \in {<<b>> : b \in ProbeBodies}
  /\ initial_energies = <<>>
  /\ average_energy = [num |-> 0, den |-> 1]
  /\ energy = 0
  /\ color = <<>>
  /\ paused = FALSE
  /\ friction_enabled = FALSE
  /\ gravity_enabled = FALSE
  /\ inversion_enabled = FALSE
  /\ dt = [up |-> 0, down |-> 0]
  /\ history = <<>>
  /\ space = NewSpace(<<0, 0>>)
  /\ crashed = FALSE
  /\ ghost = GhostCleared

\* self.initial_energies = [calculate_kinetic_energy(p.body) for p in particles]
RecordEnergies ==
  /\ initial_energies = <<>>
  /\ initial_energies' = EnergiesOf(particles)
  /\ UNCHANGED <<paused, friction_enabled, gravity_enabled, inversion_enabled, dt,
                 history, particles, space, average_energy, crashed, ghost,
                 energy, color>>

KineticNext == RecordEnergies

KineticSpec == KineticInit /\ [][KineticNext]_vars

\* ------------------------------------------------------------------ claims
\* The record a snapshot holds for a body in the kinematic state k.
AsRecord(k) == <<k.position, k.velocity, k.angle, k.angular_velocity>>

\* The entry of the history that was captured last.
NewestHeld ==
  CHOOSE e \in Range(history) : \A f \in Range(history) : f.seq <= e.seq

\* The history holds capture s with the snapshot of the state the particles
\* were in before that frame.
HoldsCapture(i, s) ==
  /\ history[i].seq = s
  /\ s \in DOMAIN ghost.pre
  /\ history[i].state = [j \in DOMAIN ghost.pre[s] |-> AsRecord(ghost.pre[s][j])]

\* C1: the history never holds more than MAX_HISTORY_LENGTH snapshots, and
\* while inversion is off it holds exactly the most recent
\* min(frames, MAX_HISTORY_LENGTH) captures, oldest first, so that after
\* MAX_HISTORY_LENGTH + k forward frames the oldest k captures are gone.
C1_HistoryBounded ==
  /\ Len(history) <= MAX_HISTORY_LENGTH
  /\ ~inversion_enabled =>
       /\ Len(history) = Min(ghost.frames, MAX_HISTORY_LENGTH)
       /\ \A i \in DOMAIN history :
            HoldsCapture(i, ghost.frames - Len(history) + i)

\* C1 witness: one frame more than the capacity was captured, the history is
\* full and the first capture is gone.
C1_Witness ==
  /\ ~inversion_enabled
  /\ ghost.frames = MAX_HISTORY_LENGTH + 1
  /\ Len(history) = MAX_HISTORY_LENGTH
  /\ \A i \in DOMAIN history : history[i].seq # 1

\* The particles carry the values of the snapshot st, paired by position.
RestoredFrom(ps, st) ==
  \A i \in DOMAIN ps :
    i <= Len(st) => AsRecord(Kinematics(ps)[i]) = st[i]

\* C2: an unpaused inversion frame with a non-empty history removes exactly
\* the most recently captured snapshot still held and restores it; the
\* snapshot is not held afterwards, so it is never restored twice.  After
\* MAX_HISTORY_LENGTH + 1 captures the frames restore the captures
\* MAX_HISTORY_LENGTH + 1, ..., 2 in this order and then find the history empty.
C2_LifoReplay ==
  [][(UpdateInversion /\ history # <<>>) =>
       /\ NewestHeld.seq = Len(history) + Max(0, ghost.frames - MAX_HISTORY_LENGTH)
       /\ Len(history') = Len(history) - 1
       /\ \A i \in DOMAIN history' : history'[i] = history[i]
       /\ \A i \in DOMAIN history' : history'[i].seq < NewestHeld.seq
       /\ RestoredFrom(particles', NewestHeld.state)]_vars

\* C2 witness: after MAX_HISTORY_LENGTH + 1 captures the inversion frames have
\* emptied the history; the particles are in the state of the oldest capture
\* that was held.
C2_Witness ==
  /\ inversion_enabled
  /\ ghost.frames = MAX_HISTORY_LENGTH + 1
  /\ history = <<>>
  /\ ghost.pre = <<>>
  /\ particles # <<>>

\* C3: round trip.  With T <= MAX_HISTORY_LENGTH forward frames captured from
\* an empty history and the particle set unchanged, the inversion frame that
\* finds m snapshots (the j-th with j = T - m + 1) puts every particle into the
\* kinematic state it had immediately before forward frame m = T - j + 1, and
\* leaves m - 1 snapshots; the T-th one restores the state before the first
\* forward frame and empties the history.
C3_RoundTrip ==
  [][(/\ UpdateInversion
      /\ history # <<>>
      /\ ghost.frames <= MAX_HISTORY_LENGTH
      /\ ~ghost.set_changed) =>
       /\ Len(history) \in DOMAIN ghost.pre
       /\ Kinematics(particles') = ghost.pre[Len(history)]
       /\ Len(history') = Len(history) - 1]_vars

\* C3 witness: T = MAX_HISTORY_LENGTH frames were captured and all of them
\* replayed; the particles, which the steps had moved, are back in the state
\* they were spawned in.
C3_Witness ==
  /\ inversion_enabled
  /\ ghost.frames = MAX_HISTORY_LENGTH
  /\ ghost.steps = MAX_HISTORY_LENGTH
  /\ ~ghost.set_changed
  /\ history = <<>>
  /\ ghost.pre = <<>>
  /\ Len(particles) = MaxParticles
  /\ \A i \in DOMAIN particles : Kinematics(particles)[i] = Sideways

\* C4: an unpaused inversion frame that finds the history empty changes
\* nothing: the particles, the history, the space and the step count stay
\* as they are and no exception is raised.
C4_EmptyHistoryHolds ==
  [][(UpdateInversion /\ history = <<>>) =>
       /\ particles' = particles
       /\ history' = <<>>
       /\ space' = space
       /\ ghost'.steps = ghost.steps
       /\ ~crashed']_vars

\* C4 witness: inversion is on and running, every captured snapshot has been
\* replayed and the next frame finds the history empty.
C4_Witness ==
  /\ inversion_enabled
  /\ ~paused
  /\ ~crashed
  /\ history = <<>>
  /\ ghost.frames > 0
  /\ particles # <<>>

\* C5: every live particle's shape friction is DEFAULT_FRICTION while
\* friction_enabled is true and 0 while it is false, whatever toggles,
\* additions, removals, resets and frames came before.
C5_FrictionConsistent ==
  \A i \in DOMAIN particles :
    particles[i].friction = IF friction_enabled THEN DEFAULT_FRICTION ELSE 0

\* C5 witness: friction is on and as many particles as can be live carry it.
C5_Witness ==
  /\ friction_enabled
  /\ Len(particles) = MaxParticles
  /\ \A i \in DOMAIN particles : particles[i].friction = DEFAULT_FRICTION

\* C6: the gravity vector of the current space is (0, GRAVITY_ACCELERATION)
\* while gravity_enabled is true and (0, 0) while it is false.
C6_GravityConsistent ==
  space.gravity = IF gravity_enabled THEN <<0, GRAVITY_ACCELERATION>> ELSE <<0, 0>>

\* C6 witness: gravity is on and the space has been stepped under it.
C6_Witness ==
  /\ gravity_enabled
  /\ space.gravity = <<0, GRAVITY_ACCELERATION>>
  /\ ghost.steps > 0
  /\ particles # <<>>
  /\ \A i \in DOMAIN particles : Kinematics(particles)[i] = Downward

\* C7: a reset empties the history, switching inversion off empties it and
\* switching inversion on leaves it as it is; every snapshot held was
\* captured after the history was last emptied, so none that is older is
\* restored.
C7_ClearedOnResetAndInversionOff ==
  /\ [][/\ reset_simulation => history' = <<>>
        /\ (KeyI /\ inversion_enabled) => history' = <<>>
        /\ (KeyI /\ ~inversion_enabled) => history' = history]_vars
  /\ [](\A i \in DOMAIN history : HoldsCapture(i, history[i].seq))

\* C7 witness: a particle has been moved by a step, so a snapshot was
\* captured, and with inversion off nothing is held any more.
C7_Witness ==
  /\ ~inversion_enabled
  /\ history = <<>>
  /\ ghost.frames = 0
  /\ \E i \in DOMAIN particles : particles[i].velocity # Sideways.velocity

\* A step that changes the particle set.
SetChange ==
  \/ KeyPlus
  \/ MouseButtonDown
  \/ KeyMinus /\ particles # <<>>
  \/ reset_simulation

\* The fraction avg is the arithmetic mean of the numbers es.
IsMeanOf(avg, es) ==
  /\ es # <<>>
  /\ avg.num * Len(es) = avg.den * SumSeq(es)

SpawnEnergiesOf(ps) == [i \in DOMAIN ps |-> ps[i].spawn_energy]

\* C8 as stated: when the particle set changes and particles remain,
\* average_energy becomes the mean of the kinetic energy the live particles
\* have after the change.
C8_MeanOfCurrentEnergy ==
  [][(SetChange /\ particles' # <<>>) =>
       IsMeanOf(average_energy', EnergiesOf(particles'))]_vars

\* C8 amended: when the particle set changes, average_energy becomes the mean
\* of the kinetic energies the live particles were created with; when a
\* removal leaves no particle, average_energy keeps its value.
C8_MeanOfRecordedEnergy ==
  [][SetChange =>
       IF particles' # <<>>
       THEN IsMeanOf(average_energy', SpawnEnergiesOf(particles'))
       ELSE average_energy' = average_energy]_vars

\* C8 witness: a particle was added after a step had changed the energy of
\* the other; the average is the mean of the energies at creation and not of
\* the current ones.
C8_Witness ==
  /\ Len(particles) = 2
  /\ ghost.steps > 0
  /\ Kinematics(particles)[1] = Downward
  /\ Kinematics(particles)[2] = Sideways
  /\ IsMeanOf(average_energy, SpawnEnergiesOf(particles))
  /\ ~IsMeanOf(average_energy, EnergiesOf(particles))

ParticleIds == {particles[i].id : i \in DOMAIN particles}

\* C9: the dynamic bodies and the circle shapes of the current space are
\* exactly those of the live particles, one of each per particle, and no
\* removal has raised; a removal takes the body and the shape of the last
\* particle out of the space in the same event, and a removal with no live
\* particle changes nothing.
C9_HandlesReleasedOnce ==
  /\ [](/\ space.bodies = ParticleIds
        /\ space.shapes = ParticleIds
        /\ Cardinality(ParticleIds) = Len(particles)
        /\ ~crashed)
  /\ [][KeyMinus =>
          IF particles # <<>>
          THEN /\ particles[Len(particles)].id \in space.bodies
               /\ particles[Len(particles)].id \in space.shapes
               /\ particles[Len(particles)].id \notin space'.bodies \cup space'.shapes
               /\ particles' = SubSeq(particles, 1, Len(particles) - 1)
          ELSE UNCHANGED vars]_vars

\* C9 witness: every particle has been removed and the space holds no
\* dynamic body and no circle shape.
C9_Witness ==
  /\ particles = <<>>
  /\ space.bodies = {}
  /\ space.shapes = {}
  /\ space.statics = 4
  /\ ~crashed

\* C10: for every energy >= 0 and every average > 0 the three channels
\* energy_to_color returns are integers in 0..255.
C10_ChannelsInRange ==
  color # <<>> =>
    /\ Len(color) = 3
    /\ \A c \in 1..3 : color[c] \in 0..255

\* C10 witness: the mapper was applied to an energy above twice the average,
\* where the unclamped green and blue are negative.
C10_Witness ==
  /\ color = <<255, 0, 0>>
  /\ average_energy.num > 0
  /\ energy * average_energy.den > 2 * average_energy.num

\* C11: for an average > 0, an energy equal to the average maps to white, the
\* energy 0 to (0, 0, 255) and every energy of at least twice the average to
\* (255, 0, 0); below the average blue is 255, at or above it red is 255.
C11_AnchorColors ==
  (color # <<>> /\ average_energy.num > 0) =>
    /\ energy * average_energy.den = average_energy.num => color = <<255, 255, 255>>
    /\ energy = 0 => color = <<0, 0, 255>>
    /\ energy * average_energy.den >= 2 * average_energy.num => color = <<255, 0, 0>>
    /\ energy * average_energy.den < average_energy.num => color[3] = 255
    /\ energy * average_energy.den >= average_energy.num => color[1] = 255

\* C11 witness: the mapper was applied to an energy equal to a positive
\* average and returned white.
C11_Witness ==
  /\ color = <<255, 255, 255>>
  /\ average_energy.num > 0
  /\ energy * average_energy.den = average_energy.num

\* C12: with an average of 0 the mapper returns white, whatever the energy.
C12_ZeroAverageIsWhite ==
  (color # <<>> /\ average_energy.num = 0) => color = <<255, 255, 255>>

\* C17: the mapper never divides by zero: the baseline it divides by is
\* positive, it is the sentinel 1 whenever the average is 0, the colour is
\* then the one an average of 1 gives, and colouring raises nothing.
C17_SentinelForZeroAverage ==
  /\ ~crashed
  /\ ColorBaseline.num > 0
  /\ average_energy.num = 0 =>
       /\ ColorBaseline = [num |-> 1, den |-> 1]
       /\ color # <<>> =>
            color = IF energy < 1 THEN <<0, 0, 255>>
                    ELSE IF energy = 1 THEN <<255, 255, 255>>
                    ELSE <<255, 0, 0>>

\* C17 witness: the mapper was applied with an average of 0 and returned a
\* colour.
C17_Witness ==
  /\ average_energy.num = 0
  /\ energy > 1
  /\ color = <<255, 0, 0>>
  /\ ~crashed

\* C13: the kinetic energy of a body with mass >= 0 and moment >= 0 is >= 0
\* for every velocity and angular velocity, and exactly 0 when the velocity is
\* (0, 0) and the angular velocity is 0.
C13_EnergyNonNegative ==
  \A i \in DOMAIN initial_energies :
    /\ initial_energies[i] >= 0
    /\ (particles[i].velocity = <<0, 0>> /\ particles[i].angular_velocity = 0)
         => initial_energies[i] = 0

\* C13 witness: the energy of a body moving and spinning in the negative
\* directions was computed and is positive.
C13_Witness ==
  /\ initial_energies # <<>>
  /\ particles[1].velocity = <<-MaxSpeed, -MaxSpeed>>
  /\ particles[1].angular_velocity = -MaxSpeed
  /\ particles[1].mass > 0
  /\ initial_energies[1] > 0

\* C14: an unpaused frame with inversion off appends exactly one snapshot, of
\* the state before the step, and then steps the world exactly once; an
\* unpaused frame with inversion on never steps the world and never grows the
\* history, whose length drops by one if it was non-empty and stays 0
\* otherwise. No frame both steps and restores.
C14_StepDiscipline ==
  [][/\ UpdateForward =>
          /\ Len(history') = Min(Len(history) + 1, MAX_HISTORY_LENGTH)
          /\ history'[Len(history')].state
               = [i \in DOMAIN particles |-> AsRecord(Kinematics(particles)[i])]
          /\ \A j \in 1..(Len(history') - 1) :
               history'[j] = history[Len(history) - (Len(history') - 1) + j]
          /\ ghost'.steps = ghost.steps + 1
          /\ particles' = Step(space, particles)
     /\ UpdateInversion =>
          /\ ghost'.steps = ghost.steps
          /\ Len(history') = IF history = <<>> THEN 0 ELSE Len(history) - 1
          /\ particles' # particles =>
               particles' = load_state(particles, history[Len(history)].state)
    ]_vars

\* C14 witness: after one forward frame the history holds the snapshot of the
\* state before the step and the world is one step further.
C14_Witness ==
  /\ ~paused
  /\ ~inversion_enabled
  /\ ghost.steps = 1
  /\ Len(history) = 1
  /\ Len(particles) = 1
  /\ history[1].state[1] = AsRecord(Sideways)
  /\ particles[1].velocity = Bounced.velocity

\* C15 as stated: while inversion stays on and unpaused, each frame shortens a
\* non-empty history by exactly one, the history (never longer than
\* MAX_HISTORY_LENGTH) is therefore empty after at most MAX_HISTORY_LENGTH
\* frames, the frame that empties it leaves every particle in the state of the
\* oldest retained snapshot, and every later frame leaves the particles as
\* they are.
C15_EveryParticleAtOldest ==
  [][UpdateInversion =>
       /\ Len(history) <= MAX_HISTORY_LENGTH
       /\ history # <<>> => Len(history') = Len(history) - 1
       /\ Len(history) = 1 =>
            \A i \in DOMAIN particles' :
              /\ i <= Len(history[1].state)
              /\ AsRecord(Kinematics(particles')[i]) = history[1].state[i]
       /\ history = <<>> => (history' = <<>> /\ particles' = particles)
    ]_vars

\* C15, amended: as above, but the frame that empties the history leaves in
\* the oldest retained snapshot's state the particles that snapshot has a
\* record for; a particle added after that snapshot was captured keeps the
\* state it had before this frame.
C15_DrainsAndStalls ==
  [][UpdateInversion =>
       /\ Len(history) <= MAX_HISTORY_LENGTH
       /\ history # <<>> => Len(history') = Len(history) - 1
       /\ Len(history) = 1 =>
            /\ Len(particles') = Len(particles)
            /\ \A i \in DOMAIN particles' :
                 IF i <= Len(history[1].state)
                 THEN AsRecord(Kinematics(particles')[i]) = history[1].state[i]
                 ELSE particles'[i] = particles[i]
       /\ history = <<>> => (history' = <<>> /\ particles' = particles)
    ]_vars

\* C15 witness: playback has drained a history that was filled past its
\* capacity while a particle was added; the first particle is back in the state
\* of the oldest retained snapshot, the added one is not.
C15_Witness ==
  /\ inversion_enabled
  /\ ~paused
  /\ history = <<>>
  /\ ghost.frames > MAX_HISTORY_LENGTH
  /\ ghost.set_changed
  /\ Len(particles) = NUM_PARTICLES + 1
  /\ Kinematics(particles)[1] # Kinematics(particles)[NUM_PARTICLES + 1]

\* C16: a restore whose snapshot has k records while n # k particles are live
\* raises nothing and keeps the n particles; it overwrites position, velocity,
\* angle and angular velocity of exactly the particles at the first min(k, n)
\* positions with the records at the same positions, leaves every particle
\* past the k-th unchanged, and ignores the records past the n-th.
C16_TruncatedRestore ==
  [][(UpdateInversion /\ history # <<>>
        /\ Len(HistoryPopped(history).state) # Len(particles)) =>
       LET state == HistoryPopped(history).state
           k == Len(state)
           n == Len(particles)
       IN /\ ~crashed'
          /\ Len(particles') = n
          /\ space' = space
          /\ \A i \in 1..n :
               IF i <= Min(k, n)
               THEN /\ AsRecord(Kinematics(particles')[i]) = state[i]
                    /\ particles' [i] =
                         [particles[i] EXCEPT !.position = state[i][1],
                                              !.velocity = state[i][2],
                                              !.angle = state[i][3],
                                              !.angular_velocity = state[i][4]]
               ELSE particles'[i] = particles[i]
    ]_vars

\* C16 witness: playback has used up the only snapshot, which was held while
\* a particle was added; both particles are live and nothing was raised.
C16_Witness ==
  /\ inversion_enabled
  /\ ~crashed
  /\ history = <<>>
  /\ ghost.frames = 1
  /\ ghost.set_changed
  /\ Len(particles) = NUM_PARTICLES + 1
  /\ AsRecord(Kinematics(particles)[1]) = AsRecord(Sideways)

\* C18: in every reachable state there are as many recorded energies as live
\* particles; so every step that changes average_energy sets it to the mean
\* of a non-empty list of recorded energies, and the removal of the last
\* particle empties the list and leaves average_energy at its previous value.
C18_EnergiesMatchParticles ==
  /\ [](Len(initial_energies) = Len(particles))
  /\ [][/\ average_energy' # average_energy =>
             IsMeanOf(average_energy', initial_energies')
        /\ (KeyMinus /\ Len(particles) = 1) =>
             /\ particles' = <<>>
             /\ initial_energies' = <<>>
             /\ average_energy' = average_energy
       ]_vars

\* C18 witness: the last particle was removed, no energy is recorded and the
\* average still has the value it had before the removal.
C18_Witness ==
  /\ particles = <<>>
  /\ initial_energies = <<>>
  /\ average_energy.num > 0
  /\ ~crashed

\* C19: while paused, update changes nothing, with inversion on or off; a step
\* taken while paused that changes the history, a particle, the space or the
\* number of world steps is a key or mouse event.
C19_PausedFrameChangesNothing ==
  [][/\ UpdatePaused => UNCHANGED vars
     /\ (paused /\ <<history, particles, space, ghost.steps>>' #
                   <<history, particles, space, ghost.steps>>) =>
          \/ reset_simulation
          \/ KeyF
          \/ KeyG
          \/ KeyI
          \/ KeyPlus
          \/ KeyMinus
          \/ MouseButtonDown
    ]_vars

\* C19 witness: the simulation is paused during playback with snapshots still
\* held and the world some steps from its start.
C19_Witness ==
  /\ paused
  /\ inversion_enabled
  /\ history # <<>>
  /\ ghost.steps > 0
  /\ ~crashed

\* C20: a reset from any reachable state leaves exactly NUM_PARTICLES live
\* particles, an empty history and NUM_PARTICLES recorded energies, and leaves
\* paused, friction_enabled, gravity_enabled, inversion_enabled and dt as they
\* were.
C20_ResetKeepsFlags ==
  [][reset_simulation =>
       /\ Len(particles') = NUM_PARTICLES
       /\ history' = <<>>
       /\ Len(initial_energies') = NUM_PARTICLES
       /\ initial_energies' = EnergiesOf(particles')
       /\ UNCHANGED <<paused, friction_enabled, gravity_enabled,
                      inversion_enabled, dt>>
    ]_vars

\* C20 witness: a fresh particle set with every flag on and a changed time
\* step: NUM_PARTICLES particles in their spawn state, nothing in the history
\* and nothing captured.
C20_Witness ==
  /\ paused
  /\ friction_enabled
  /\ gravity_enabled
  /\ inversion_enabled
  /\ dt # [up |-> 0, down |-> 0]
  /\ history = <<>>
  /\ ghost = GhostCleared
  /\ Len(particles) = NUM_PARTICLES
  /\ Len(initial_energies) = NUM_PARTICLES
  /\ \A i \in DOMAIN particles :
       /\ AsRecord(Kinematics(particles)[i]) = AsRecord(Sideways)
       /\ particles[i].friction = DEFAULT_FRICTION

====
